---- MODULE Spec2Model ----
(***************************************************************************)
(* A model of the distributed collective backend of nGraph,                *)
(* ngraph::distributed::OpenMPIDistributedInterface                        *)
(* (src/src/ngraph/distributed/open_mpi.hpp).                              *)
(*                                                                         *)
(* SpecLife : one process.  Backend instances are constructed and          *)
(*            destroyed, the application may initialize or finalize the    *)
(*            transport itself, and every operation of a live instance is  *)
(*            called in every transport state.  The variable last records  *)
(*            the most recent call: its arguments, the transport state it  *)
(*            found, the transport calls it made and how it ended.         *)
(* SpecColl : a group of NRanks processes, each holding an instance over   *)
(*            an initialized transport, each making at most one call of    *)
(*            the collective the program names.                            *)
(***************************************************************************)
EXTENDS Naturals, Integers, Sequences, FiniteSets, TLC

\* ------------------------------------------------------------------ bounds
\* Instance slots of the process (objects that may be alive at once).
MaxInst == 2
\* Processes of the group.
NRanks == 4
\* Processes of the point-to-point group.
NPeers == 2

\* Nodes of the function handed to the lowering pass.
MaxNodes == 3
\* Lowering passes over that function.
MaxPasses == 2

\* Largest hidden size of a recurrent cell and of the tensors handed to it.
MaxHidden == 2

Insts == 1..MaxInst
Ranks == 0..(NRanks - 1)
Peers == 0..(NPeers - 1)

VARIABLES
    \* --- the process (SpecLife)
    mpi_initialized,   \* what MPI_Initialized reports
    mpi_finalized,     \* what MPI_Finalized reports
    inst,              \* the backend objects: live, m_manage_communicator, m_initialized_mpi
    n_init,            \* MPI_Init calls made by the backend (create_context)
    n_finalize,        \* MPI_Finalize calls made by the backend (free_context)
    last,              \* the most recent call
    \* --- the group (SpecColl)
    prog,              \* the collective every rank's program calls
    pc,                \* per rank: where its call stands
    call_type,         \* per rank: the datatype it entered the transport with
    buf,               \* per rank: the in buffer
    out,               \* per rank: the out buffer
    buf0,              \* per rank: the in buffer before any call
    \* --- the point-to-point group (SpecP2P)
    p2p_pc,            \* per rank: where its send or recv stands
    p2p_call,          \* per rank: the call it made: op, peer, datatype
    p2p_msg,           \* per rank: the message it sent: none, posted, delivered
    p2p_buf,           \* per rank: the in buffer
    p2p_buf0,          \* per rank: the in buffer before any call
    \* --- the lowering pass (SpecLower)
    graph,             \* the function: its nodes in visiting order
    pass_no,           \* calls of convert_function so far
    pass_status,       \* idle, running, done, failed
    visit,             \* the position of the next node to lower
    value_map,         \* (node, output index) -> target-IR value
    module,            \* the operations emitted into the module, in order
    invoked,           \* the nodes a converter was invoked on, in order
    value_log,         \* the get_tensor_value / set_tensor_value calls, in order
    lower_last,        \* what the last converter did
    caller_result,     \* what convert_function gave its caller
    \* --- the recurrent cell (SpecLstm)
    cell_pc,           \* idle, rejected, constructed, decomposing, decomposed
    cell_args,         \* the arguments the constructor was called with
    cell_node,         \* the fused node the construction left
    cell_emitted,      \* the primitive nodes decomposition emitted, in order
    cell_error         \* the validation error reported to the caller

lifeVars == <<mpi_initialized, mpi_finalized, inst, n_init, n_finalize, last>>
collVars == <<prog, pc, call_type, buf, out, buf0>>
p2pVars == <<p2p_pc, p2p_call, p2p_msg, p2p_buf, p2p_buf0>>
lowerVars ==
    <<graph, pass_no, pass_status, visit, value_map, module, invoked, value_log,
      lower_last, caller_result>>
lstmVars == <<cell_pc, cell_args, cell_node, cell_emitted, cell_error>>
vars == <<lifeVars, collVars, p2pVars, lowerVars, lstmVars>>

\* What a step of one part of the model leaves alone.
notLife == <<collVars, p2pVars, lowerVars, lstmVars>>
notColl == <<lifeVars, p2pVars, lowerVars, lstmVars>>
notP2P == <<lifeVars, collVars, lowerVars, lstmVars>>
notLower == <<lifeVars, collVars, p2pVars, lstmVars>>
notLstm == <<lifeVars, collVars, p2pVars, lowerVars>>

\* What a converter that was not invoked did.
NoConversion ==
    [node |-> 0, op |-> "none", raised |-> "none", message |-> "",
     operation |-> "none", gets |-> <<>>, sets |-> <<>>]

\* What a caller that has not been answered holds.
NoResult == [returned |-> "pending", ops |-> <<>>, raised |-> "none", message |-> ""]

\* The lowering pass, while another part of the model runs.
\* No construction was asked for.
NoArgs ==
    [hidden_size |-> 0, W |-> 0, R |-> 0, H_t |-> 0, C_t |-> 0, P |-> 0,
     activations |-> <<>>, clip |-> 0]

\* No fused node.
NoCell ==
    [built |-> FALSE, hidden_size |-> 0, m_activation_f |-> "", m_activation_g |-> "",
     m_activation_h |-> "", clip |-> 0, peepholes |-> FALSE]

LstmIdle ==
    /\ cell_pc = "idle" /\ cell_args = NoArgs /\ cell_node = NoCell
    /\ cell_emitted = <<>> /\ cell_error = "none"

LowerIdle ==
    /\ graph = <<>>
    /\ pass_no = 0
    /\ pass_status = "idle"
    /\ visit = 1
    /\ value_map = {}
    /\ module = <<>>
    /\ invoked = <<>>
    /\ value_log = <<>>
    /\ lower_last = NoConversion
    /\ caller_result = NoResult

\* ------------------------------------------------------------ element types
\* element::Type_t, as enumerated by the exhaustive switch of
\* ngraph_type_to_mpi_type.
Type_t ==
    {"undefined", "dynamic", "boolean", "bf16", "f16", "f32", "f64",
     "i8", "i16", "i32", "i64", "u8", "u16", "u32", "u64"}

\* reduction::Type
ReductionType == {"SUM", "PROD", "MIN", "MAX"}

\* The value of a call that ended in a C++ exception.
Throw == "throw"

\* all_reduce with the else branch of line 127 lost: every other type keeps
\* the initial MPI_FLOAT of line 117.
all_reduce_data_type_no_throw(element_type) ==
    IF element_type = "f64" THEN "MPI_DOUBLE" ELSE "MPI_FLOAT"

\* all_reduce, lines 117-130: the datatype, or the runtime_error.
all_reduce_data_type(element_type) ==
    IF element_type = "f32" THEN "MPI_FLOAT"
    ELSE IF element_type = "f64" THEN "MPI_DOUBLE"
    ELSE Throw

\* The switch of all_reduce with the PROD case carrying SUM's primitive.
all_reduce_mpi_reduce_type_prod_as_sum(reduce_type) ==
    CASE reduce_type = "SUM" -> "MPI_SUM"
      [] reduce_type = "PROD" -> "MPI_SUM"
      [] reduce_type = "MIN" -> "MPI_MIN"
      [] reduce_type = "MAX" -> "MPI_MAX"

\* all_reduce, lines 138-144: the switch over reduction::Type.
all_reduce_mpi_reduce_type(reduce_type) ==
    CASE reduce_type = "SUM" -> "MPI_SUM"
      [] reduce_type = "PROD" -> "MPI_PROD"
      [] reduce_type = "MIN" -> "MPI_MIN"
      [] reduce_type = "MAX" -> "MPI_MAX"

\* broadcast, lines 157-167.
broadcast_data_type(element_type) ==
    IF element_type = "f64" THEN "MPI_DOUBLE"
    ELSE IF element_type # "f32" THEN Throw
    ELSE "MPI_FLOAT"

\* ngraph_type_to_mpi_type, lines 207-237.
ngraph_type_to_mpi_type(n_type) ==
    CASE n_type = "boolean" -> "MPI_BYTE"
      [] n_type = "f32" -> "MPI_FLOAT"
      [] n_type = "f64" -> "MPI_DOUBLE"
      [] n_type = "i8" -> "MPI_BYTE"
      [] n_type = "i16" -> "MPI_SHORT"
      [] n_type = "i32" -> "MPI_INT"
      [] n_type = "i64" -> "MPI_LONG"
      [] n_type = "u8" -> "MPI_UNSIGNED_CHAR"
      [] n_type = "u16" -> "MPI_UNSIGNED_SHORT"
      [] n_type = "u32" -> "MPI_UNSIGNED"
      [] n_type = "u64" -> "MPI_UNSIGNED_LONG"
      [] n_type \in {"bf16", "f16", "undefined", "dynamic"} -> Throw

\* recv, lines 173-182.
recv_data_type(element_type) ==
    IF element_type = "bf16" \/ element_type = "f16"
    THEN "MPI_SHORT"
    ELSE ngraph_type_to_mpi_type(element_type)

\* send with the 16-bit branch of line 194 lost.
send_data_type_no_short(element_type) == ngraph_type_to_mpi_type(element_type)

\* send, lines 192-201.
send_data_type(element_type) ==
    IF element_type = "bf16" \/ element_type = "f16"
    THEN "MPI_SHORT"
    ELSE ngraph_type_to_mpi_type(element_type)

\* ------------------------------------------------------------ the process
\* The calls a backend object makes on the transport, by name.
Has(calls, name) == \E k \in 1..Len(calls) : calls[k] = name

\* The transport accepts communication calls between MPI_Init and MPI_Finalize.
TransportActive(is_initialized, is_finalized) == is_initialized /\ ~is_finalized

\* A communication call outside that window is erroneous: MPI leaves its
\* outcome undefined, so the call may return or abort the process.
TransportOutcomes(is_initialized, is_finalized) ==
    IF TransportActive(is_initialized, is_finalized) THEN {"ok"} ELSE {"ok", "abort"}

\* The owning constructor with the assertion of line 49 lost.
owning_assert_lost(is_mpi_initialized) == TRUE

\* Constructor, line 49: NGRAPH_ASSERT(is_mpi_initialized == false).
owning_assert(is_mpi_initialized) == is_mpi_initialized = FALSE

\* Constructor, line 58: NGRAPH_ASSERT(is_mpi_initialized == false).
borrowing_assert(is_mpi_initialized) == is_mpi_initialized = FALSE

\* Constructor, lines 45-61: whether the body runs to its end.
ctor_succeeds(manage_communicator, is_mpi_initialized) ==
    IF manage_communicator = TRUE
    THEN owning_assert(is_mpi_initialized)
    ELSE borrowing_assert(is_mpi_initialized)

\* The constructor calling create_context() in both branches.
ctor_calls_both_init(manage_communicator, is_mpi_initialized) ==
    <<"MPI_Initialized">> \o
    (IF ctor_succeeds(manage_communicator, is_mpi_initialized)
     THEN <<"MPI_Init">> ELSE <<>>)

\* Constructor, lines 45-61: the transport calls it makes, in order.
ctor_calls(manage_communicator, is_mpi_initialized) ==
    IF manage_communicator = TRUE
    THEN <<"MPI_Initialized">> \o
         (IF owning_assert(is_mpi_initialized) THEN <<"MPI_Init">> ELSE <<>>)
    ELSE <<"MPI_Initialized">>

\* The destructor with free_context() of line 72 lost.
dtor_calls_no_free(m_manage_communicator, m_initialized_mpi, is_mpi_finalized) ==
    IF m_manage_communicator = TRUE THEN <<"MPI_Finalized">> ELSE <<>>

\* Destructor, lines 66-75: the transport calls it makes, in order.
dtor_calls(m_manage_communicator, m_initialized_mpi, is_mpi_finalized) ==
    IF m_manage_communicator = TRUE
    THEN <<"MPI_Finalized">> \o
         (IF ~is_mpi_finalized /\ m_initialized_mpi THEN <<"MPI_Finalize">> ELSE <<>>)
    ELSE <<>>

\* Constructor, line 39: the default of the name argument.
DefaultName == "OpenMPI"

\* Members of an object that does not exist (the member initializers of
\* lines 240-241).
NoObject ==
    [live |-> FALSE, m_name |-> "", m_manage_communicator |-> FALSE,
     m_initialized_mpi |-> FALSE]

NoCall ==
    [op |-> "none", inst |-> 0, manage |-> FALSE, etype |-> "none", reduce |-> "none",
     pre_initialized |-> FALSE, pre_finalized |-> FALSE, had_init |-> FALSE,
     calls |-> <<>>, dtype |-> "none", mpi_op |-> "none", handed |-> {},
     result |-> "none"]

\* The record of a call of op on object i, before its body has run.
CallOf(op, i) ==
    [NoCall EXCEPT !.op = op, !.inst = i,
                   !.manage = inst[i].m_manage_communicator,
                   !.had_init = inst[i].m_initialized_mpi,
                   !.pre_initialized = mpi_initialized,
                   !.pre_finalized = mpi_finalized]

\* An abort of the transport ends the process.
Running == last.result # "abort"

\* The transport after a sequence of calls.
TransportAfter(calls) ==
    /\ mpi_initialized' = (mpi_initialized \/ Has(calls, "MPI_Init"))
    /\ mpi_finalized' = (mpi_finalized \/ Has(calls, "MPI_Finalize"))
    /\ n_init' = n_init + (IF Has(calls, "MPI_Init") THEN 1 ELSE 0)
    /\ n_finalize' = n_finalize + (IF Has(calls, "MPI_Finalize") THEN 1 ELSE 0)

\* OpenMPIDistributedInterface(name, manage_communicator), lines 38-62.
Construct(i, manage_communicator) ==
    /\ Running
    /\ ~inst[i].live
    /\ LET ok == ctor_succeeds(manage_communicator, mpi_initialized)
           calls == ctor_calls(manage_communicator, mpi_initialized)
       IN /\ TransportAfter(calls)
          /\ inst' = [inst EXCEPT ![i] =
                         IF ok
                         THEN [live |-> TRUE, m_name |-> DefaultName,
                               m_manage_communicator |-> manage_communicator,
                               m_initialized_mpi |-> manage_communicator]
                         ELSE NoObject]
          /\ last' = [CallOf("ctor", i) EXCEPT !.manage = manage_communicator,
                                               !.calls = calls,
                                               !.result = IF ok THEN "ok" ELSE "assert"]
    /\ UNCHANGED notLife

\* ~OpenMPIDistributedInterface(), lines 64-76.
Destroy(i) ==
    /\ Running
    /\ inst[i].live
    /\ LET calls == dtor_calls(inst[i].m_manage_communicator,
                               inst[i].m_initialized_mpi, mpi_finalized)
       IN /\ TransportAfter(calls)
          /\ last' = [CallOf("dtor", i) EXCEPT !.calls = calls, !.result = "ok"]
    /\ inst' = [inst EXCEPT ![i] = NoObject]
    /\ UNCHANGED notLife

\* The application initializes the transport itself (the case the borrowing
\* constructor's MPI_Initialized query is for).
ExternalInit ==
    /\ Running
    /\ ~mpi_initialized
    /\ mpi_initialized' = TRUE
    /\ last' = [NoCall EXCEPT !.op = "ext_init", !.result = "ok"]
    /\ UNCHANGED <<mpi_finalized, inst, n_init, n_finalize, notLife>>

\* The application finalizes the transport itself (the case the
\* destructor's MPI_Finalized query is for).
ExternalFinalize ==
    /\ Running
    /\ TransportActive(mpi_initialized, mpi_finalized)
    /\ mpi_finalized' = TRUE
    /\ last' = [NoCall EXCEPT !.op = "ext_finalize", !.pre_initialized = TRUE,
                              !.result = "ok"]
    /\ UNCHANGED <<mpi_initialized, inst, n_init, n_finalize, notLife>>

\* A member function that creates the context on first use: it calls
\* MPI_Init when the transport is not initialized yet.
Operation_lazy_init(i, call, dtype, transport_call, handed) ==
    /\ Running
    /\ inst[i].live
    /\ mpi_initialized' = TRUE
    /\ n_init' = n_init + (IF mpi_initialized THEN 0 ELSE 1)
    /\ inst' = [inst EXCEPT ![i].m_initialized_mpi = @ \/ ~mpi_initialized]
    /\ last' = IF dtype = Throw
               THEN [call EXCEPT !.result = Throw]
               ELSE [call EXCEPT !.dtype = dtype,
                                 !.calls = (IF mpi_initialized THEN <<>> ELSE <<"MPI_Init">>)
                                              \o <<transport_call>>,
                                 !.handed = handed,
                                 !.result = "ok"]
    /\ UNCHANGED <<mpi_finalized, n_finalize, notLife>>

\* A member function whose body ends in one communication call of the
\* transport, or in an exception when dtype is Throw.
Operation(i, call, dtype, transport_call, handed) ==
    /\ Running
    /\ inst[i].live
    /\ \E outcome \in TransportOutcomes(mpi_initialized, mpi_finalized) :
          last' = IF dtype = Throw
                  THEN [call EXCEPT !.result = Throw]
                  ELSE [call EXCEPT !.dtype = dtype,
                                    !.calls = <<transport_call>>,
                                    !.handed = handed,
                                    !.result = outcome]
    /\ UNCHANGED <<mpi_initialized, mpi_finalized, inst, n_init, n_finalize, notLife>>

\* get_name, line 90.
get_name(i) ==
    /\ Running
    /\ inst[i].live
    /\ last' = [CallOf("get_name", i) EXCEPT !.result = "ok"]
    /\ UNCHANGED <<mpi_initialized, mpi_finalized, inst, n_init, n_finalize, notLife>>

\* get_size, lines 91-96.
get_size(i) == Operation(i, CallOf("get_size", i), "none", "MPI_Comm_size", {})

\* get_rank, lines 98-103.
get_rank(i) == Operation(i, CallOf("get_rank", i), "none", "MPI_Comm_rank", {})

\* log_print, lines 105-109: get_rank(), then printf.
log_print(i) == Operation(i, CallOf("log_print", i), "none", "MPI_Comm_rank", {})

\* all_reduce, lines 111-150.
all_reduce(i, element_type, reduce_type) ==
    Operation(i,
              [CallOf("all_reduce", i) EXCEPT
                   !.etype = element_type, !.reduce = reduce_type,
                   !.mpi_op = IF all_reduce_data_type(element_type) = Throw
                              THEN "none"
                              ELSE all_reduce_mpi_reduce_type(reduce_type)],
              all_reduce_data_type(element_type), "MPI_Allreduce", {"in", "out"})

\* broadcast, lines 152-169.
broadcast(i, element_type) ==
    Operation(i, [CallOf("broadcast", i) EXCEPT !.etype = element_type],
              broadcast_data_type(element_type), "MPI_Bcast", {"in"})

\* recv, lines 171-185.
recv(i, element_type) ==
    Operation(i, [CallOf("recv", i) EXCEPT !.etype = element_type],
              recv_data_type(element_type), "MPI_Recv", {"in"})

\* send, lines 187-204.
send(i, element_type) ==
    Operation(i, [CallOf("send", i) EXCEPT !.etype = element_type],
              send_data_type(element_type), "MPI_Send", {"in"})

\* The group, while the process model runs: no rank has called anything.
CollIdle ==
    /\ prog = [kind |-> "none", reduce |-> "none", root |-> 0]
    /\ pc = [r \in Ranks |-> "idle"]
    /\ call_type = [r \in Ranks |-> "none"]
    /\ buf = [r \in Ranks |-> 0]
    /\ out = [r \in Ranks |-> 0]
    /\ buf0 = [r \in Ranks |-> 0]

\* The process at start: no transport, no objects (lines 240-241).
LifeStart ==
    /\ mpi_initialized = FALSE
    /\ mpi_finalized = FALSE
    /\ inst = [i \in Insts |-> NoObject]
    /\ n_init = 0
    /\ n_finalize = 0
    /\ last = NoCall

\* The point-to-point group, while another part of the model runs.
P2PIdle ==
    /\ p2p_pc = [r \in Peers |-> "idle"]
    /\ p2p_call = [r \in Peers |-> [op |-> "none", peer |-> 0, dtype |-> "none"]]
    /\ p2p_msg = [r \in Peers |-> "none"]
    /\ p2p_buf = [r \in Peers |-> 0]
    /\ p2p_buf0 = [r \in Peers |-> 0]

InitLife == LifeStart /\ CollIdle /\ P2PIdle /\ LowerIdle /\ LstmIdle

NextLife ==
    \/ \E i \in Insts, m \in BOOLEAN : Construct(i, m)
    \/ \E i \in Insts : Destroy(i)
    \/ ExternalInit
    \/ ExternalFinalize
    \/ \E i \in Insts : get_name(i)
    \/ \E i \in Insts : get_size(i)
    \/ \E i \in Insts : get_rank(i)
    \/ \E i \in Insts : log_print(i)
    \/ \E i \in Insts, t \in Type_t, k \in ReductionType : all_reduce(i, t, k)
    \/ \E i \in Insts, t \in Type_t : broadcast(i, t)
    \/ \E i \in Insts, t \in Type_t : recv(i, t)
    \/ \E i \in Insts, t \in Type_t : send(i, t)

SpecLife == InitLife /\ [][NextLife]_vars

\* -------------------------------------------------------------- the group
\* What rank r may hold in its buffer before the call: the same value as
\* every other rank, or a value of its own.
Values(r) == {1, r + 1}

\* The collectives a program may name: all_reduce with a reduction kind, or
\* broadcast with a root.
Programs ==
    [kind : {"all_reduce"}, reduce : ReductionType, root : {0}]
        \cup [kind : {"broadcast"}, reduce : {"none"}, root : Ranks]

\* The transport's reduction operators, on two elements.
MPI_Op(mpi_op, a, b) ==
    CASE mpi_op = "MPI_SUM" -> a + b
      [] mpi_op = "MPI_PROD" -> a * b
      [] mpi_op = "MPI_MIN" -> IF a <= b THEN a ELSE b
      [] mpi_op = "MPI_MAX" -> IF a >= b THEN a ELSE b

\* MPI_Allreduce, line 149: the reduction of the in buffers of ranks 0..n.
RECURSIVE MPI_Reduce(_, _, _)
MPI_Reduce(mpi_op, in, n) ==
    IF n = 0 THEN in[0] ELSE MPI_Op(mpi_op, MPI_Reduce(mpi_op, in, n - 1), in[n])

\* A rank is in the collective, or has left it.
Entered(r) == pc[r] \in {"in_transport", "returned", "erroneous"}

\* MPI_Allreduce returning with no wait for the other ranks.
allreduce_may_return_nowait(r) == pc[r] = "in_transport"

\* MPI_Allreduce, line 149: the result depends on every rank's in buffer, so
\* the call returns once every rank is in it with the same datatype.
allreduce_may_return(r) ==
    /\ pc[r] = "in_transport"
    /\ \A q \in Ranks : Entered(q) /\ call_type[q] = call_type[r]

\* MPI_Bcast, line 168: the root's part is over once its buffer is handed to
\* the transport; another rank needs the root to be in the call, with the
\* same datatype.
bcast_may_return(r, root_id) ==
    /\ pc[r] = "in_transport"
    /\ r # root_id => (Entered(root_id) /\ call_type[root_id] = call_type[r])

\* broadcast with the root argument lost on the way to MPI_Bcast.
broadcast_root_lost(root_id) == 0

\* broadcast, line 168: the root handed to MPI_Bcast.
broadcast_root(root_id) == root_id

\* Two ranks are in the same collective with different datatypes: erroneous
\* for the transport, which leaves the outcome undefined.
Mismatched(r) ==
    /\ pc[r] = "in_transport"
    /\ \E q \in Ranks : Entered(q) /\ call_type[q] # call_type[r]

\* Rank r calls all_reduce(in, out, element_type, prog.reduce, count):
\* lines 117-130 throw, or the rank enters MPI_Allreduce.
CallAllReduce(r, element_type) ==
    /\ prog.kind = "all_reduce"
    /\ pc[r] = "idle"
    /\ LET data_type == all_reduce_data_type(element_type)
       IN IF data_type = Throw
          THEN pc' = [pc EXCEPT ![r] = "threw"] /\ UNCHANGED call_type
          ELSE /\ pc' = [pc EXCEPT ![r] = "in_transport"]
               /\ call_type' = [call_type EXCEPT ![r] = data_type]
    /\ UNCHANGED <<prog, buf, out, buf0, notColl>>

\* MPI_Allreduce returns on rank r with the reduced value in out.
ReturnAllReduce(r) ==
    /\ prog.kind = "all_reduce"
    /\ allreduce_may_return(r)
    /\ out' = [out EXCEPT ![r] =
                  MPI_Reduce(all_reduce_mpi_reduce_type(prog.reduce), buf, NRanks - 1)]
    /\ pc' = [pc EXCEPT ![r] = "returned"]
    /\ UNCHANGED <<prog, call_type, buf, buf0, notColl>>

\* Rank r calls broadcast(in, element_type, count, prog.root): lines 157-167
\* throw, or the rank enters MPI_Bcast.
CallBroadcast(r, element_type) ==
    /\ prog.kind = "broadcast"
    /\ pc[r] = "idle"
    /\ LET data_type == broadcast_data_type(element_type)
       IN IF data_type = Throw
          THEN pc' = [pc EXCEPT ![r] = "threw"] /\ UNCHANGED call_type
          ELSE /\ pc' = [pc EXCEPT ![r] = "in_transport"]
               /\ call_type' = [call_type EXCEPT ![r] = data_type]
    /\ UNCHANGED <<prog, buf, out, buf0, notColl>>

\* MPI_Bcast returns on rank r with the root's buffer in in.
ReturnBroadcast(r) ==
    /\ prog.kind = "broadcast"
    /\ bcast_may_return(r, broadcast_root(prog.root))
    /\ buf' = [buf EXCEPT ![r] = buf[broadcast_root(prog.root)]]
    /\ pc' = [pc EXCEPT ![r] = "returned"]
    /\ UNCHANGED <<prog, call_type, out, buf0, notColl>>

\* The transport ends an erroneous call on rank r: the buffer it was to
\* write (out for MPI_Allreduce, in on a rank other than root for MPI_Bcast)
\* holds no defined value (0).
Erroneous(r) ==
    /\ Mismatched(r)
    /\ pc' = [pc EXCEPT ![r] = "erroneous"]
    /\ IF prog.kind = "all_reduce"
       THEN out' = [out EXCEPT ![r] = 0] /\ UNCHANGED buf
       ELSE /\ buf' = [buf EXCEPT ![r] = IF r = broadcast_root(prog.root)
                                        THEN buf[r] ELSE 0]
            /\ UNCHANGED out
    /\ UNCHANGED <<prog, call_type, buf0, notColl>>

\* Every rank's process: an owning object over an initialized transport.
CollProcess ==
    /\ mpi_initialized = TRUE
    /\ mpi_finalized = FALSE
    /\ inst = [i \in Insts |->
                  IF i = 1
                  THEN [live |-> TRUE, m_name |-> DefaultName,
                        m_manage_communicator |-> TRUE,
                        m_initialized_mpi |-> TRUE]
                  ELSE NoObject]
    /\ n_init = 1
    /\ n_finalize = 0
    /\ last = NoCall

InitColl ==
    /\ CollProcess
    /\ P2PIdle
    /\ LowerIdle
    /\ LstmIdle
    /\ prog \in Programs
    /\ buf0 \in [Ranks -> 1..NRanks]
    /\ \A r \in Ranks : buf0[r] \in Values(r)
    /\ buf = buf0
    /\ out = [r \in Ranks |-> 0]
    /\ pc = [r \in Ranks |-> "idle"]
    /\ call_type = [r \in Ranks |-> "none"]

NextColl ==
    \/ \E r \in Ranks, t \in Type_t : CallAllReduce(r, t)
    \/ \E r \in Ranks : ReturnAllReduce(r)
    \/ \E r \in Ranks, t \in Type_t : CallBroadcast(r, t)
    \/ \E r \in Ranks : ReturnBroadcast(r)
    \/ \E r \in Ranks : Erroneous(r)

SpecColl == InitColl /\ [][NextColl]_vars

\* ------------------------------------------------ the point-to-point group
\* The element types the ranks of the point-to-point group pass: a float, the
\* three types that travel as MPI_SHORT, and one that no datatype stands for.
P2PTypes == {"f32", "f16", "bf16", "i16", "dynamic"}

\* MPI_Recv returning with no wait for a message.
recv_may_return_nowait(b) == p2p_pc[b] = "receiving"

\* MPI_Recv, line 184: the call returns once the rank named by src_id has
\* posted a message for this rank (tag 0, MPI_COMM_WORLD).
recv_may_return(b) ==
    /\ p2p_pc[b] = "receiving"
    /\ LET a == p2p_call[b].peer
       IN /\ p2p_call[a].op = "send"
          /\ p2p_call[a].peer = b
          /\ p2p_msg[a] = "posted"

\* MPI_Send, line 203: a standard-mode send; the call returns once the
\* message is posted, buffered by the transport or taken by the receiver.
send_may_return(a) ==
    /\ p2p_pc[a] = "sending"
    /\ p2p_msg[a] \in {"posted", "delivered"}

\* Rank r calls send(in, element_type, count, dest_id): lines 192-201 throw,
\* or the rank enters MPI_Send and its message is posted.
CallSend(r, element_type, dest_id) ==
    /\ p2p_pc[r] = "idle"
    /\ LET data_type == send_data_type(element_type)
       IN IF data_type = Throw
          THEN /\ p2p_pc' = [p2p_pc EXCEPT ![r] = "threw"]
               /\ UNCHANGED <<p2p_call, p2p_msg>>
          ELSE /\ p2p_pc' = [p2p_pc EXCEPT ![r] = "sending"]
               /\ p2p_call' = [p2p_call EXCEPT ![r] =
                                  [op |-> "send", peer |-> dest_id, dtype |-> data_type]]
               /\ p2p_msg' = [p2p_msg EXCEPT ![r] = "posted"]
    /\ UNCHANGED <<p2p_buf, p2p_buf0, notP2P>>

\* MPI_Send returns on rank a.
ReturnSend(a) ==
    /\ send_may_return(a)
    /\ p2p_pc' = [p2p_pc EXCEPT ![a] = "returned"]
    /\ UNCHANGED <<p2p_call, p2p_msg, p2p_buf, p2p_buf0, notP2P>>

\* Rank r calls recv(in, element_type, count, src_id): lines 173-182 throw,
\* or the rank enters MPI_Recv.
CallRecv(r, element_type, src_id) ==
    /\ p2p_pc[r] = "idle"
    /\ LET data_type == recv_data_type(element_type)
       IN IF data_type = Throw
          THEN /\ p2p_pc' = [p2p_pc EXCEPT ![r] = "threw"]
               /\ UNCHANGED p2p_call
          ELSE /\ p2p_pc' = [p2p_pc EXCEPT ![r] = "receiving"]
               /\ p2p_call' = [p2p_call EXCEPT ![r] =
                                  [op |-> "recv", peer |-> src_id, dtype |-> data_type]]
    /\ UNCHANGED <<p2p_msg, p2p_buf, p2p_buf0, notP2P>>

\* MPI_Recv returns on rank b with the message of its peer in in.  A message
\* of another datatype is erroneous for the transport: the call ends with
\* no defined value (0) in the buffer.
ReturnRecv(b) ==
    /\ recv_may_return(b)
    /\ LET a == p2p_call[b].peer
       IN /\ p2p_msg' = [p2p_msg EXCEPT ![a] = "delivered"]
          /\ IF p2p_call[a].dtype = p2p_call[b].dtype
             THEN /\ p2p_buf' = [p2p_buf EXCEPT ![b] = p2p_buf[a]]
                  /\ p2p_pc' = [p2p_pc EXCEPT ![b] = "returned"]
             ELSE /\ p2p_buf' = [p2p_buf EXCEPT ![b] = 0]
                  /\ p2p_pc' = [p2p_pc EXCEPT ![b] = "erroneous"]
    /\ UNCHANGED <<p2p_call, p2p_buf0, notP2P>>

InitP2P ==
    /\ CollProcess
    /\ CollIdle
    /\ LowerIdle
    /\ LstmIdle
    /\ p2p_pc = [r \in Peers |-> "idle"]
    /\ p2p_call = [r \in Peers |-> [op |-> "none", peer |-> 0, dtype |-> "none"]]
    /\ p2p_msg = [r \in Peers |-> "none"]
    /\ p2p_buf0 \in [Peers -> 1..NPeers]
    /\ \A r \in Peers : p2p_buf0[r] \in Values(r)
    /\ p2p_buf = p2p_buf0

NextP2P ==
    \/ \E r \in Peers, t \in P2PTypes, d \in Peers : CallSend(r, t, d)
    \/ \E r \in Peers : ReturnSend(r)
    \/ \E r \in Peers, t \in P2PTypes, a \in Peers : CallRecv(r, t, a)
    \/ \E r \in Peers : ReturnRecv(r)

SpecP2P == InitP2P /\ [][NextP2P]_vars

\* ------------------------------------------------------- the lowering pass
\* The operators of the functions handed to the pass: three the dialect can
\* express (no input, one output; one input, one output; one input, two
\* outputs) and the one it refuses.
LowerOps == {"Parameter", "Relu", "Split", "v0::MVN"}

NumInputs(op) == IF op = "Parameter" THEN 0 ELSE 1

NumOutputs(op) == IF op = "Split" THEN 2 ELSE 1

\* The input of a node that has none.
NoInput == [node |-> 0, index |-> 0]

\* The functions of n nodes, in the order the pass visits them.  An input
\* names an output of any node of the function: the order is the upstream
\* graph's, and the pass does not check that it is topological.
GraphsOfSize(n) ==
    {g \in [1..n -> [op : LowerOps, input : [node : 1..n, index : 0..1] \cup {NoInput}]] :
        \A i \in 1..n :
            IF NumInputs(g[i].op) = 0
            THEN g[i].input = NoInput
            ELSE /\ g[i].input # NoInput
                 /\ g[i].input.index < NumOutputs(g[g[i].input.node].op)}

Graphs == UNION {GraphsOfSize(n) : n \in 1..MaxNodes}

\* createOp<v0::MVN> lowering the node to an operation that does nothing.
createOp_MVN_noop(ngNode_op) ==
    [raised |-> "none", message |-> "", operation |-> "noop"]

\* NgDialectConversionPass::createOp<ngraph::op::v0::MVN>, mvn_v0.cpp lines
\* 20-27: the NGRAPH_CHECK on the dynamic_cast, then the throw.
createOp_MVN(ngNode_op) ==
    IF ngNode_op # "v0::MVN"
    THEN [raised |-> "check_failure", message |-> "ngNode is not a v0::MVN",
          operation |-> "none"]
    ELSE [raised |-> "unsupported_op", message |-> "Unsupported op 'v0::MVN'",
          operation |-> "none"]

HasValue(map, node, index) == \E e \in map : e.node = node /\ e.index = index

\* get_tensor_value answering with a null value for an output nobody
\* registered.
get_tensor_value_or_null(map, node, index) ==
    [raised |-> "none"]

\* get_tensor_value: the value registered for (node, index), or the failure
\* of the pass when there is none.
get_tensor_value(map, node, index) ==
    IF HasValue(map, node, index)
    THEN [raised |-> "none"]
    ELSE [raised |-> "check_failure"]

\* set_tensor_value: (node, index) stands for value from now on.
set_tensor_value(map, node, index, value) ==
    {e \in map : ~(e.node = node /\ e.index = index)}
        \cup {[node |-> node, index |-> index, value |-> value]}

\* A converter registering the first result only.
outputs_to_register_first(op) == <<0>>

\* The output indices a converter registers: every result of the operation.
outputs_to_register(op) == [k \in 1..NumOutputs(op) |-> k - 1]

\* The converter of an operator the dialect expresses: resolve the operand
\* through the value map, then build the operation and name its results.
createOp(i) ==
    LET n == graph[i]
        got == IF NumInputs(n.op) = 0
               THEN [raised |-> "none"]
               ELSE get_tensor_value(value_map, n.input.node, n.input.index)
    IN [node |-> i, op |-> n.op,
        raised |-> got.raised,
        message |-> IF got.raised = "none" THEN "" ELSE "operand not lowered",
        operation |-> IF got.raised = "none" THEN n.op ELSE "none",
        gets |-> IF NumInputs(n.op) = 0 THEN <<>> ELSE <<n.input>>,
        sets |-> IF got.raised = "none" THEN outputs_to_register(n.op) ELSE <<>>]

\* The dispatch on the node's operator identity.
Convert(i) ==
    IF graph[i].op = "v0::MVN"
    THEN LET r == createOp_MVN(graph[i].op)
         IN [node |-> i, op |-> graph[i].op, raised |-> r.raised,
             message |-> r.message, operation |-> r.operation,
             gets |-> <<>>, sets |-> <<>>]
    ELSE createOp(i)

\* The value map after the converter of node i registered its results.
RECURSIVE RegisterAll(_, _, _)
RegisterAll(map, i, sets) ==
    IF sets = <<>> THEN map
    ELSE RegisterAll(set_tensor_value(map, i, Head(sets),
                                      [pass |-> pass_no, node |-> i, index |-> Head(sets)]),
                     i, Tail(sets))

\* A pass that goes on after a converter raised.
pass_after_raise_swallowed(raised) == "running"

\* A condition raised by a converter leaves the pass for its caller.
pass_after_raise(raised) == IF raised = "none" THEN "running" ELSE "failed"

\* The value map a pass starts with.  NgraphToMlir has no map among its
\* members (m_context, m_builder, m_module): get_tensor_value_map() hands out
\* a reference to a map stored outside the object built for the pass, which
\* therefore still holds what earlier passes registered.
get_tensor_value_map(old) == old

\* convert_function(function, context) is called.
StartPass ==
    /\ pass_status \in {"idle", "done", "failed"}
    /\ pass_no < MaxPasses
    /\ pass_no' = pass_no + 1
    /\ pass_status' = "running"
    /\ visit' = 1
    /\ value_map' = get_tensor_value_map(value_map)
    /\ module' = <<>>
    /\ invoked' = <<>>
    /\ value_log' = <<>>
    /\ lower_last' = NoConversion
    /\ caller_result' = NoResult
    /\ UNCHANGED <<graph, notLower>>

\* The pass lowers the next node of the function.
LowerNode ==
    /\ pass_status = "running"
    /\ visit <= Len(graph)
    /\ LET c == Convert(visit)
           status == pass_after_raise(c.raised)
       IN /\ lower_last' = c
          /\ invoked' = Append(invoked, visit)
          /\ value_log' = value_log
                 \o [k \in 1..Len(c.gets) |->
                        [kind |-> "get", node |-> c.gets[k].node, index |-> c.gets[k].index]]
                 \o [k \in 1..Len(c.sets) |->
                        [kind |-> "set", node |-> visit, index |-> c.sets[k]]]
          /\ value_map' = RegisterAll(value_map, visit, c.sets)
          /\ module' = IF c.operation = "none" THEN module ELSE Append(module, visit)
          /\ pass_status' = status
          /\ visit' = IF status = "running" THEN visit + 1 ELSE visit
          /\ caller_result' =
                 IF status = "failed"
                 THEN [returned |-> "none", ops |-> <<>>, raised |-> c.raised,
                       message |-> c.message]
                 ELSE caller_result
    /\ UNCHANGED <<graph, pass_no, notLower>>

\* Every node is lowered: convert_function returns the module.
FinishPass ==
    /\ pass_status = "running"
    /\ visit > Len(graph)
    /\ pass_status' = "done"
    /\ caller_result' = [returned |-> "module", ops |-> module, raised |-> "none",
                         message |-> ""]
    /\ UNCHANGED <<graph, pass_no, visit, value_map, module, invoked, value_log,
                   lower_last, notLower>>

InitLower ==
    /\ LifeStart
    /\ CollIdle
    /\ P2PIdle
    /\ graph \in Graphs
    /\ pass_no = 0
    /\ pass_status = "idle"
    /\ visit = 1
    /\ value_map = {}
    /\ module = <<>>
    /\ invoked = <<>>
    /\ value_log = <<>>
    /\ lower_last = NoConversion
    /\ caller_result = NoResult
    /\ LstmIdle

NextLower == StartPass \/ LowerNode \/ FinishPass

SpecLower == InitLower /\ [][NextLower]_vars

\* ------------------------------------------------------ the recurrent cell
\* static constexpr std::size_t m_gates_count{4}.
m_gates_count == 4

\* static constexpr std::size_t m_peepholes_count{3}.
m_peepholes_count == 3

\* The activation functions the backend knows, and the names handed to the
\* constructor: those and one it does not know.
KnownActivations == {"sigmoid", "tanh"}

ActivationNames == KnownActivations \cup {"bogus"}

\* The default of the constructor's activations argument.
DefaultActivations == <<"sigmoid", "tanh", "tanh">>

ActivationLists == UNION {[1..n -> ActivationNames] : n \in 2..4}

\* The arguments of a construction.  A tensor is given by the dimension that
\* has to agree with hidden_size: the rows of W [4*hidden_size, input_size]
\* and of R [4*hidden_size, hidden_size], the columns of H_t and C_t
\* [batch_size, hidden_size], the length of P [3*hidden_size] (0: no P).
CellArgs ==
    [hidden_size : 1..MaxHidden,
     W : {m_gates_count * h : h \in 1..MaxHidden},
     R : {m_gates_count * h : h \in 1..MaxHidden},
     H_t : 1..MaxHidden,
     C_t : 1..MaxHidden,
     P : {0} \cup {m_peepholes_count * h : h \in 1..MaxHidden},
     activations : ActivationLists,
     clip : {-1, 0, 1}]

\* A validation that does not look at the clip value.
pre_validate_and_infer_types_no_clip(a) ==
    IF Len(a.activations) # Len(DefaultActivations) THEN "activations_length"
    ELSE IF \E k \in 1..Len(a.activations) : a.activations[k] \notin KnownActivations
    THEN "unknown_activation"
    ELSE IF \/ a.W # m_gates_count * a.hidden_size
            \/ a.R # m_gates_count * a.hidden_size
            \/ a.H_t # a.hidden_size
            \/ a.C_t # a.hidden_size
            \/ (a.P # 0 /\ a.P # m_peepholes_count * a.hidden_size)
    THEN "shape_mismatch"
    ELSE "none"

\* The construction-time validation: the error it reports, or none.
pre_validate_and_infer_types(a) ==
    IF Len(a.activations) # Len(DefaultActivations) THEN "activations_length"
    ELSE IF \E k \in 1..Len(a.activations) : a.activations[k] \notin KnownActivations
    THEN "unknown_activation"
    ELSE IF \/ a.W # m_gates_count * a.hidden_size
            \/ a.R # m_gates_count * a.hidden_size
            \/ a.H_t # a.hidden_size
            \/ a.C_t # a.hidden_size
            \/ (a.P # 0 /\ a.P # m_peepholes_count * a.hidden_size)
    THEN "shape_mismatch"
    ELSE IF a.clip < 0 THEN "negative_clip"
    ELSE "none"

\* The primitive nodes the decomposition of a cell emits, in order: the gate
\* pre-activations and their split, the peephole contributions, the clip, the
\* activations, the new cell state and the new hidden state.
decompose_op(n) ==
    <<"Dot", "Dot", "Add", "Add", "Split">>
        \o (IF n.peepholes THEN <<"Multiply", "Add">> ELSE <<>>)
        \o (IF n.clip > 0 THEN <<"Clamp">> ELSE <<>>)
        \o <<n.m_activation_f, n.m_activation_g, "Multiply", "Multiply", "Add",
             n.m_activation_h, "Multiply">>

\* LSTMCell(X, W, R, H_t, C_t, hidden_size, B, P, activations, ..., clip, ...).
LSTMCell(a) ==
    /\ cell_pc = "idle"
    /\ cell_args' = a
    /\ LET error == pre_validate_and_infer_types(a)
       IN IF error # "none"
          THEN /\ cell_pc' = "rejected"
               /\ cell_error' = error
               /\ cell_node' = NoCell
          ELSE /\ cell_pc' = "constructed"
               /\ cell_error' = "none"
               /\ cell_node' = [built |-> TRUE, hidden_size |-> a.hidden_size,
                                m_activation_f |-> a.activations[1],
                                m_activation_g |-> a.activations[2],
                                m_activation_h |-> a.activations[3],
                                clip |-> a.clip, peepholes |-> a.P # 0]
    /\ UNCHANGED <<cell_emitted, notLstm>>

\* The decomposition engine emits the next primitive node of the cell.
Decompose ==
    /\ cell_pc \in {"constructed", "decomposing"}
    /\ LET nodes == decompose_op(cell_node)
       IN /\ cell_emitted' = Append(cell_emitted, nodes[Len(cell_emitted) + 1])
          /\ cell_pc' = IF Len(cell_emitted) + 1 = Len(nodes)
                        THEN "decomposed" ELSE "decomposing"
    /\ UNCHANGED <<cell_args, cell_node, cell_error, notLstm>>

InitLstm == LifeStart /\ CollIdle /\ P2PIdle /\ LowerIdle /\ LstmIdle

\* A caller constructs a cell; the arguments are drawn only where a
\* construction can happen.
ConstructCell == cell_pc = "idle" /\ \E a \in CellArgs : LSTMCell(a)

NextLstm == ConstructCell \/ Decompose

SpecLstm == InitLstm /\ [][NextLstm]_vars

\* ------------------------------------------------ properties of the process
\* The operations that end in a communication call of the transport.
TransportOps == {"get_size", "get_rank", "all_reduce", "broadcast", "send", "recv"}

\* C1: a borrowing constructor (manage_communicator = false) succeeds when
\* the transport is already initialized and fails with an assertion when it
\* is not.
C1_BorrowingCtorNeedsInitialized ==
    (last.op = "ctor" /\ ~last.manage)
        => ((last.result = "ok") <=> last.pre_initialized)

\* C2: an owning constructor that finds the transport initialized fails with
\* an assertion, calls no MPI_Init and leaves no object with
\* m_initialized_mpi set; at most one live object has m_initialized_mpi set.
C2_SecondOwnerRejected ==
    /\ (last.op = "ctor" /\ last.manage /\ last.pre_initialized)
          => /\ last.result = "assert"
             /\ ~Has(last.calls, "MPI_Init")
             /\ ~inst[last.inst].live
             /\ ~inst[last.inst].m_initialized_mpi
    /\ Cardinality({i \in Insts : inst[i].live /\ inst[i].m_initialized_mpi}) <= 1

\* An owning constructor was refused while another owning object is live.
C2_Witness ==
    /\ last.op = "ctor" /\ last.manage /\ last.result = "assert"
    /\ \E i \in Insts : inst[i].live /\ inst[i].m_initialized_mpi

\* C3: the backend calls MPI_Init at most once and MPI_Finalize at most
\* once, MPI_Finalize only after MPI_Init, and the destructor of an owning
\* object that initialized the transport calls MPI_Finalize exactly when the
\* transport is not finalized yet.
C3_InitOnceFinalizeOnce ==
    /\ n_init <= 1
    /\ n_finalize <= 1
    /\ n_finalize <= n_init
    /\ Has(last.calls, "MPI_Init") => ~last.pre_initialized
    /\ Has(last.calls, "MPI_Finalize") => (last.pre_initialized /\ ~last.pre_finalized)
    /\ (last.op = "dtor" /\ last.manage /\ last.had_init)
          => (Has(last.calls, "MPI_Finalize") <=> ~last.pre_finalized)

\* The owning object that initialized the transport was destroyed and
\* finalized it.
C3_Witness ==
    /\ last.op = "dtor" /\ last.manage /\ last.had_init
    /\ Has(last.calls, "MPI_Finalize")
    /\ n_init = 1 /\ n_finalize = 1 /\ mpi_finalized

\* C4: no call on a borrowing object (constructor, destructor or operation)
\* calls MPI_Init or MPI_Finalize or changes what the transport reports.
C4_BorrowerLeavesTransport ==
    (last.op \notin {"none", "ext_init", "ext_finalize"} /\ ~last.manage)
        => /\ ~Has(last.calls, "MPI_Init")
           /\ ~Has(last.calls, "MPI_Finalize")
           /\ mpi_initialized = last.pre_initialized
           /\ mpi_finalized = last.pre_finalized

\* A borrowing object was destroyed while the transport was in use, and the
\* transport is still in use.
C4_Witness ==
    /\ last.op = "dtor" /\ ~last.manage
    /\ TransportActive(last.pre_initialized, last.pre_finalized)
    /\ TransportActive(mpi_initialized, mpi_finalized)

\* C5: an operation called while the transport is not initialized, or is
\* finalized already, fails and makes no transport call.
C5_OperationNeedsTransport ==
    (last.op \in TransportOps /\ ~TransportActive(last.pre_initialized, last.pre_finalized))
        => (last.result \in {"assert", Throw} /\ last.calls = <<>>)

\* C8: all_reduce and broadcast accept f32 and f64; with any other element
\* type they end in the unsupported-type exception, having made no transport
\* call and handed no buffer to the transport.
C8_OnlyFloatCollectives ==
    (last.op \in {"all_reduce", "broadcast"})
        => /\ last.etype \in Type_t
           /\ (last.etype \notin {"f32", "f64"})
                 => (last.result = Throw /\ last.calls = <<>> /\ last.handed = {})
           /\ (last.etype \in {"f32", "f64"})
                 => /\ last.result # Throw
                    /\ last.calls = <<IF last.op = "all_reduce"
                                      THEN "MPI_Allreduce" ELSE "MPI_Bcast">>
                    /\ last.dtype = (IF last.etype = "f32" THEN "MPI_FLOAT" ELSE "MPI_DOUBLE")

\* all_reduce was called with an integer type over a transport in use.
C8_Witness ==
    /\ last.op = "all_reduce" /\ last.etype = "i32" /\ last.result = Throw
    /\ TransportActive(last.pre_initialized, last.pre_finalized)

\* The element types send and recv hand to the transport.
C10_Table ==
    [t \in Type_t |->
        CASE t = "boolean" -> "MPI_BYTE"
          [] t = "i8" -> "MPI_BYTE"
          [] t = "i16" -> "MPI_SHORT"
          [] t = "i32" -> "MPI_INT"
          [] t = "i64" -> "MPI_LONG"
          [] t = "u8" -> "MPI_UNSIGNED_CHAR"
          [] t = "u16" -> "MPI_UNSIGNED_SHORT"
          [] t = "u32" -> "MPI_UNSIGNED"
          [] t = "u64" -> "MPI_UNSIGNED_LONG"
          [] t = "f32" -> "MPI_FLOAT"
          [] t = "f64" -> "MPI_DOUBLE"
          [] t \in {"f16", "bf16"} -> "MPI_SHORT"
          [] t \in {"undefined", "dynamic"} -> Throw]

\* C10: send and recv hand boolean, the integer widths, f32 and f64 to the
\* transport under a datatype of their own, f16 and bf16 as MPI_SHORT, fail
\* with no transport call on undefined and dynamic, and agree with each other
\* on every element type.
C10_PointToPointTypes ==
    (last.op \in {"send", "recv"})
        => /\ last.etype \in Type_t
           /\ (last.etype \in {"undefined", "dynamic"})
                 => (last.result = Throw /\ last.calls = <<>>)
           /\ (last.etype \notin {"undefined", "dynamic"})
                 => /\ last.result # Throw
                    /\ last.dtype = C10_Table[last.etype]
                    /\ last.calls = <<IF last.op = "send" THEN "MPI_Send" ELSE "MPI_Recv">>
           /\ (last.op = "send")
                 => recv_data_type(last.etype) =
                        (IF last.result = Throw THEN Throw ELSE last.dtype)
           /\ (last.op = "recv")
                 => send_data_type(last.etype) =
                        (IF last.result = Throw THEN Throw ELSE last.dtype)

\* A 16-bit float was sent as MPI_SHORT over a transport in use.
C10_Witness ==
    /\ last.op = "send" /\ last.etype = "bf16" /\ last.dtype = "MPI_SHORT"
    /\ last.calls = <<"MPI_Send">>
    /\ TransportActive(last.pre_initialized, last.pre_finalized)

\* C18: log_print returns normally (it neither blocks nor fails the caller)
\* in every state in which it can be called.
C18_LogPrintNeverFails ==
    (last.op = "log_print") => last.result = "ok"

\* The member functions other than the constructor and the destructor.
FrameOps ==
    {"get_name", "get_size", "get_rank", "log_print",
     "all_reduce", "broadcast", "send", "recv"}

\* C19: a step of get_name, get_size, get_rank, log_print, all_reduce,
\* broadcast, send or recv leaves every object's m_initialized_mpi,
\* m_manage_communicator and m_name, and what the transport reports, as they
\* were.
C19_OperationsFrame ==
    [][(last'.op \in FrameOps)
          => /\ inst' = inst
             /\ mpi_initialized' = mpi_initialized
             /\ mpi_finalized' = mpi_finalized]_vars

\* all_reduce returned on an owning object whose members are as the
\* constructor set them, over a transport in use.
C19_Witness ==
    /\ last.op = "all_reduce" /\ last.result = "ok" /\ last.calls = <<"MPI_Allreduce">>
    /\ inst[last.inst] = [live |-> TRUE, m_name |-> DefaultName,
                          m_manage_communicator |-> TRUE, m_initialized_mpi |-> TRUE]
    /\ TransportActive(mpi_initialized, mpi_finalized)

\* The transport primitive of each reduction kind.
C20_Table ==
    [k \in ReductionType |->
        CASE k = "SUM" -> "MPI_SUM"
          [] k = "PROD" -> "MPI_PROD"
          [] k = "MIN" -> "MPI_MIN"
          [] k = "MAX" -> "MPI_MAX"]

\* C20: an all_reduce that reaches the transport hands it the primitive of
\* the reduction kind it was called with, and no two kinds share one.
C20_ReductionMapping ==
    (last.op = "all_reduce" /\ last.result # Throw)
        => /\ last.reduce \in ReductionType
           /\ last.mpi_op = C20_Table[last.reduce]
           /\ \A k \in ReductionType :
                 k # last.reduce => all_reduce_mpi_reduce_type(k) # last.mpi_op

\* all_reduce was called with PROD and handed MPI_PROD to the transport.
C20_Witness ==
    /\ last.op = "all_reduce" /\ last.reduce = "PROD" /\ last.mpi_op = "MPI_PROD"
    /\ last.calls = <<"MPI_Allreduce">>

\* C21: once an owning instance has been destroyed and has finalized the
\* transport, no owning instance is ever constructed again in the process:
\* the transport still reports itself initialized, the owning constructor's
\* assertion fails and MPI_Init is not called a second time.
C21_NoOwnerAfterShutdown ==
    /\ n_finalize >= 1 =>
           /\ mpi_initialized = TRUE
           /\ mpi_finalized = TRUE
           /\ n_init = 1
           /\ \A i \in Insts : inst[i].live => inst[i].m_manage_communicator = FALSE
    /\ (n_finalize >= 1 /\ last.op = "ctor" /\ last.manage = TRUE) =>
           /\ last.pre_initialized = TRUE
           /\ last.result = "assert"
           /\ ~Has(last.calls, "MPI_Init")
           /\ ~inst[last.inst].live

\* An owning constructor was called after an owning instance had finalized
\* the transport.
C21_Witness ==
    /\ n_finalize >= 1
    /\ last.op = "ctor"
    /\ last.manage = TRUE
    /\ last.pre_finalized = TRUE
    /\ last.result = "assert"

\* -------------------------------------------------- properties of the group
RECURSIVE C6_Sum(_, _)
C6_Sum(in, S) ==
    IF S = {} THEN 0
    ELSE LET r == CHOOSE r \in S : TRUE IN in[r] + C6_Sum(in, S \ {r})

RECURSIVE C6_Prod(_, _)
C6_Prod(in, S) ==
    IF S = {} THEN 1
    ELSE LET r == CHOOSE r \in S : TRUE IN in[r] * C6_Prod(in, S \ {r})

\* The reduction of every rank's contribution, by reduction kind.
C6_Expected(kind, in) ==
    CASE kind = "SUM" -> C6_Sum(in, Ranks)
      [] kind = "PROD" -> C6_Prod(in, Ranks)
      [] kind = "MIN" -> CHOOSE m \in {in[r] : r \in Ranks} : \A r \in Ranks : m <= in[r]
      [] kind = "MAX" -> CHOOSE m \in {in[r] : r \in Ranks} : \A r \in Ranks : m >= in[r]

\* C6: a rank that has returned from all_reduce holds in out the reduction,
\* by the kind requested, of all ranks' in buffers, which are unchanged; so
\* all ranks hold the same value.  With 4 ranks contributing r+1 that is 10
\* for SUM and 24 for PROD.
C6_AllReduceResult ==
    (prog.kind = "all_reduce")
        => /\ \A r \in Ranks :
                 pc[r] = "returned"
                     => (out[r] = C6_Expected(prog.reduce, buf0) /\ buf[r] = buf0[r])
           /\ \A r, q \in Ranks :
                 (pc[r] = "returned" /\ pc[q] = "returned") => out[r] = out[q]
           /\ (NRanks = 4 /\ \A r \in Ranks : buf0[r] = r + 1 /\ pc[r] = "returned")
                 => /\ prog.reduce = "SUM" => \A r \in Ranks : out[r] = 10
                    /\ prog.reduce = "PROD" => \A r \in Ranks : out[r] = 24

\* Every rank contributed r+1 to a PROD all_reduce and has returned.
C6_Witness ==
    /\ prog.kind = "all_reduce" /\ prog.reduce = "PROD"
    /\ \A r \in Ranks : buf0[r] = r + 1 /\ pc[r] = "returned"
    /\ \A r \in Ranks : out[r] = C6_Prod(buf0, Ranks)
    /\ \E r \in Ranks : call_type[r] = "MPI_DOUBLE"

\* C7 as claimed: no rank returns from all_reduce or broadcast before every
\* rank has entered the same call with the same datatype.
C7_NoReturnBeforeAllEntered ==
    \A r \in Ranks :
        pc[r] = "returned"
            => \A q \in Ranks : Entered(q) /\ call_type[q] = call_type[r]

\* C7 as amended: no rank returns from all_reduce before every rank has
\* entered it with the same datatype; no rank other than root returns from
\* broadcast before root has entered it with the same datatype.
C7_Blocking ==
    \A r \in Ranks :
        pc[r] = "returned"
            => IF prog.kind = "all_reduce"
               THEN \A q \in Ranks : Entered(q) /\ call_type[q] = call_type[r]
               ELSE Entered(prog.root) /\ call_type[prog.root] = call_type[r]

\* All ranks but one are inside all_reduce with the same datatype, and the
\* last one has not called.
C7_Witness ==
    /\ prog.kind = "all_reduce"
    /\ \E q \in Ranks :
          /\ pc[q] = "idle"
          /\ \A r \in Ranks \ {q} : pc[r] = "in_transport" /\ call_type[r] = "MPI_FLOAT"

\* C9: a rank that has returned from broadcast holds root's buffer as it was
\* before the call; root's own buffer is unchanged.
C9_BroadcastResult ==
    (prog.kind = "broadcast")
        => /\ \A r \in Ranks : pc[r] = "returned" => buf[r] = buf0[prog.root]
           /\ buf[prog.root] = buf0[prog.root]

\* Every rank has returned from a broadcast whose root is not rank 0, and a
\* rank that held another value now holds root's.
C9_Witness ==
    /\ prog.kind = "broadcast" /\ prog.root # 0
    /\ \A r \in Ranks : pc[r] = "returned"
    /\ \E r \in Ranks : buf0[r] # buf0[prog.root] /\ buf[r] = buf0[prog.root]

\* Some rank's call ended in the runtime_error of the element-type check.
SomeRankThrew == \E r \in Ranks : pc[r] = "threw"

\* C22 as stated: once a rank has failed the element-type check of all_reduce
\* or broadcast, no rank that entered the same collective returns from it.
C22_NoReturnAfterThrow ==
    [][SomeRankThrew =>
           \A q \in Ranks : pc'[q] = "returned" => pc[q] = "returned"]_vars

\* C22: the element-type check of all_reduce and broadcast comes before the
\* transport collective: a rank that fails it never enters the collective and
\* its buffers stay as they were.  In all_reduce no rank then returns; in
\* broadcast no rank returns when the rank that failed is root.
C22_TypeCheckBeforeCollective ==
    /\ \A r \in Ranks :
           pc[r] = "threw" =>
               /\ ~Entered(r)
               /\ call_type[r] = "none"
               /\ buf[r] = buf0[r]
               /\ out[r] = 0
    /\ (prog.kind = "all_reduce" /\ SomeRankThrew) =>
           \A q \in Ranks : pc[q] # "returned"
    /\ (prog.kind = "broadcast" /\ pc[prog.root] = "threw") =>
           \A q \in Ranks : pc[q] # "returned"

\* Every rank has made its call: one failed the element-type check and
\* another is inside the collective, with the same datatype as every rank
\* that entered.
C22_Witness ==
    /\ SomeRankThrew
    /\ \A r \in Ranks : pc[r] \in {"threw", "in_transport"}
    /\ \E q \in Ranks :
           /\ pc[q] = "in_transport"
           /\ \A p \in Ranks : pc[p] = "in_transport" => call_type[p] = call_type[q]
    /\ prog.kind = "all_reduce" \/ pc[prog.root] = "threw"

Occurrences(s, x) == Cardinality({k \in 1..Len(s) : s[k] = x})

SetEntry(node, index) == [kind |-> "set", node |-> node, index |-> index]

\* C12: the converter of v0::MVN, given a v0::MVN node, always raises the
\* unsupported-operator condition carrying the name 'v0::MVN', returns no
\* operation and registers nothing in the value map.
C12_MVNNeverLowered ==
    lower_last.op = "v0::MVN" =>
        /\ lower_last.raised = "unsupported_op"
        /\ lower_last.message = "Unsupported op 'v0::MVN'"
        /\ lower_last.operation = "none"
        /\ lower_last.sets = <<>>
        /\ ~\E e \in value_map : e.node = lower_last.node
        /\ \A k \in 1..Len(module) : module[k] # lower_last.node
        /\ \A k \in 1..Len(value_log) :
               ~(value_log[k].kind = "set" /\ value_log[k].node = lower_last.node)

\* The converter of v0::MVN has run on a node that follows lowered nodes.
C12_Witness ==
    /\ lower_last.op = "v0::MVN"
    /\ lower_last.node > 1
    /\ value_map # {}

\* C13: once the unsupported-operator condition is raised for a node, the pass
\* is aborted: no node after it is lowered, the condition reaches the caller
\* of the pass and the caller gets no module.
C13_UnsupportedAbortsPass ==
    \A k \in 1..Len(invoked) :
        graph[invoked[k]].op = "v0::MVN" =>
            /\ k = Len(invoked)
            /\ pass_status = "failed"
            /\ visit = invoked[k]
            /\ caller_result.returned = "none"
            /\ caller_result.ops = <<>>
            /\ caller_result.raised = "unsupported_op"
            /\ caller_result.message = "Unsupported op 'v0::MVN'"

\* A pass failed on a v0::MVN node that has lowered nodes before it and a node
\* after it.
C13_Witness ==
    /\ pass_status = "failed"
    /\ lower_last.op = "v0::MVN"
    /\ module # <<>>
    /\ visit < Len(graph)
    /\ caller_result.raised = "unsupported_op"

\* The entry k of the pass's log resolves an output no earlier entry of the
\* log registered.
UnregisteredGet(k) ==
    /\ value_log[k].kind = "get"
    /\ ~\E j \in 1..(k - 1) :
           value_log[j] = SetEntry(value_log[k].node, value_log[k].index)

\* C14: every operand is resolved through the value map; resolving an output
\* that has not been registered fails the pass, so in a pass that completes
\* each get_tensor_value follows a set_tensor_value of the same output.
C14_OperandsResolvedAfterRegistered ==
    /\ \A k \in 1..Len(value_log) :
           UnregisteredGet(k) =>
               /\ k = Len(value_log)
               /\ pass_status = "failed"
               /\ lower_last.raised = "check_failure"
               /\ caller_result.returned = "none"
    /\ pass_status = "done" =>
           /\ \A k \in 1..Len(value_log) : ~UnregisteredGet(k)
           /\ \A i \in 1..Len(graph) :
                  NumInputs(graph[i].op) > 0 =>
                      Occurrences(value_log, [kind |-> "get", node |-> graph[i].input.node,
                                              index |-> graph[i].input.index]) > 0

\* A pass completed in which an operand was resolved, and a pass failed on an
\* operand that was not registered.
C14_Witness ==
    \/ /\ pass_status = "done"
       /\ \E k \in 1..Len(value_log) : value_log[k].kind = "get"
    \/ /\ pass_status = "failed"
       /\ value_log # <<>>
       /\ UnregisteredGet(Len(value_log))

\* C15: in a pass that completes every node is lowered exactly once: its
\* converter is invoked a single time and each of its outputs is registered
\* exactly once.
C15_LoweredExactlyOnce ==
    pass_status = "done" =>
        \A i \in 1..Len(graph) :
            /\ Occurrences(invoked, i) = 1
            /\ Occurrences(module, i) = 1
            /\ \A x \in 0..(NumOutputs(graph[i].op) - 1) :
                   /\ Occurrences(value_log, SetEntry(i, x)) = 1
                   /\ Cardinality({e \in value_map : e.node = i /\ e.index = x}) = 1
                   /\ [node |-> i, index |-> x,
                       value |-> [pass |-> pass_no, node |-> i, index |-> x]] \in value_map

\* A pass completed on a function with a node of two outputs that another
\* node reads.
C15_Witness ==
    /\ pass_status = "done"
    /\ \E i \in 1..Len(graph) : graph[i].op = "Split"
    /\ \E i \in 1..Len(graph) : graph[i].input.index = 1

InvalidParameters ==
    \/ Len(cell_args.activations) # 3
    \/ \E k \in 1..Len(cell_args.activations) :
           cell_args.activations[k] \notin {"sigmoid", "tanh"}
    \/ cell_args.W # 4 * cell_args.hidden_size
    \/ cell_args.R # 4 * cell_args.hidden_size
    \/ cell_args.H_t # cell_args.hidden_size
    \/ cell_args.C_t # cell_args.hidden_size
    \/ (cell_args.P # 0 /\ cell_args.P # 3 * cell_args.hidden_size)
    \/ cell_args.clip < 0

\* C17: invalid recurrent-cell parameters are rejected as validation errors
\* before decomposition emits any primitive node, and a rejected construction
\* leaves no partially constructed state.
C17_InvalidRejectedBeforeDecomposition ==
    /\ (cell_pc # "idle" /\ InvalidParameters) =>
           /\ cell_pc = "rejected"
           /\ cell_error # "none"
           /\ cell_emitted = <<>>
    /\ cell_pc = "rejected" =>
           /\ cell_node = NoCell
           /\ cell_emitted = <<>>
    /\ cell_emitted # <<>> => (cell_node.built /\ ~InvalidParameters)

\* A construction was rejected for its negative clip value alone.
C17_Witness ==
    /\ cell_pc = "rejected"
    /\ cell_error = "negative_clip"
    /\ cell_args.activations = DefaultActivations
====
